---- MODULE Spec2Model ----
(***************************************************************************)
(* HVAC energy-wastage dashboards.                                         *)
(*                                                                         *)
(* Three Streamlit programs are modelled, each as "one script run = one    *)
(* action":                                                                *)
(*   final_v2           src/HVAC_Scenarios_final_v2.py       (Gmail alerts)  *)
(*   real_time_alerts   src/HVAC_Scenarios_real_time_alerts.py (Outlook)    *)
(*   command_center     src/command_center.py + src/app_utils.py           *)
(*                                                                         *)
(* Numbers.  Every real-valued quantity of the two scenario dashboards     *)
(* (kW, status signal, degrees C, valve %, rupees) is a fixed-point        *)
(* integer in TENTHS: 5 kW is 50, a status of 0.5 is 5, 22 C is 220,       *)
(* valve 80 % is 800, Rs 500 is 5000.  The rates cost_rate and             *)
(* cooling_factor are whole rupees, so  tenths * rate  is tenths of a      *)
(* rupee.  A missing value is NaN, an absent feed is None.                  *)
(*                                                                         *)
(* Time.  A raw feed is a function from sample ticks to values; a bucket   *)
(* of the resampling grid is TicksPerBucket ticks wide and bucket b starts *)
(* at tick b * TicksPerBucket.  Hourly buckets carry an hour of day:       *)
(* bucket b of a feed window that starts at start_hour is hour             *)
(* (start_hour + b) % 24.                                                  *)
(***************************************************************************)
EXTENDS Integers, Sequences, FiniteSets, TLC

VARIABLES
    app,                    \* which dashboard this session runs
    ghost_alert_active,     \* st.session_state.ghost_alert_active   (final_v2)
    cooling_alert_active,   \* st.session_state.cooling_alert_active (final_v2)
    processed_df,           \* the table the last run evaluated (evidence export)
    metrics,                \* the figures the last run computed for display / e-mail
    sidebar,                \* the sidebar widget values the last run read
    raw_feeds,              \* the four feeds load_latest_csv handed to the last run
    log,                    \* history: one entry per script run of the session
    session_df,             \* st.session_state.df               (command_center)
    last_loaded_file,       \* st.session_state.last_loaded_file (command_center)
    ack_actions,            \* st.session_state.ack_actions      (command_center)
    zone_flags,             \* what compute_analytics returned to the last run
    ahu_flags,
    chiller_flags,
    actions_df,             \* the top actions the last run rendered
    csv_files,              \* the CSV files of the feed folders (real_time_alerts)
    src_folders,            \* the feed folders that exist under BASE_PATH
    archived,               \* the files written to the archive zips
    summary,                \* the counters of the running archive_old_csvs call
    call                    \* archive_old_csvs: position, folder, age_hours, files

dash_vars == <<app, ghost_alert_active, cooling_alert_active, processed_df, metrics,
               sidebar, raw_feeds, log>>

cc_vars == <<session_df, last_loaded_file, ack_actions, zone_flags, ahu_flags,
             chiller_flags, actions_df>>

arch_vars == <<csv_files, src_folders, archived, summary, call>>

----------------------------------------------------------------------------
(* Bounds of the model                                                     *)

MaxCycles == 3          \* script runs of a session
MaxSteadyCycles == 4    \* script runs of a session under fixed settings
MaxBuckets == 3         \* buckets spanned by a raw feed window
TicksPerBucket == 2     \* sample positions per bucket
MaxSamples == 2         \* samples in a status / temperature / valve feed
MaxRows == 3            \* rows of a command-center CSV
MaxZones == 5           \* zone rows of one AHU in a command-center CSV
MaxFiles == 2           \* CSV files that arrive during a command-center session
FillWindow == 4         \* hourly buckets of a power window over one status sample
TrendSpan == 8          \* buckets of a window longer than the trend window
MaxCsvFiles == 2        \* CSV files in the feed folders when archiving starts

----------------------------------------------------------------------------
(* Values                                                                  *)

NaN == 0 - 1000000            \* a missing value (below every modelled quantity)

\* What load_latest_csv finds for a feed folder: a frame of samples, no CSV
\* (None, also returned when the folder is absent or the file is unreadable),
\* or in real_time_alerts a folder that does not exist.
Frame(f) == [kind |-> "frame", data |-> f]
None == [kind |-> "None", data |-> <<>>]
NoFolder == [kind |-> "NoFolder", data |-> <<>>]

SCENARIO_1 == "SCENARIO_1"      \* outside occupancy / ghost running
SCENARIO_2 == "SCENARIO_2"      \* excess cooling / overcooling

Min(S) == CHOOSE x \in S : \A y \in S : x <= y
Max(S) == CHOOSE x \in S : \A y \in S : x >= y

RECURSIVE SumOver(_, _)
SumOver(f, S) ==
    IF S = {} THEN 0
    ELSE LET x == CHOOSE y \in S : TRUE IN f[x] + SumOver(f, S \ {x})

RECURSIVE SortedSeq(_)
SortedSeq(S) ==
    IF S = {} THEN <<>> ELSE <<Min(S)>> \o SortedSeq(S \ {Min(S)})

RECURSIVE SumCol(_, _)
SumCol(df, c) ==
    IF df = <<>> THEN 0 ELSE df[1][c] + SumCol(Tail(df), c)

TailN(df, n) ==
    IF Len(df) <= n THEN df ELSE SubSeq(df, Len(df) - n + 1, Len(df))

IsNone(x) == x.kind # "frame"

BoolInt(b) == IF b THEN 1 ELSE 0

Clip0(x) == IF x < 0 THEN 0 ELSE x          \* Series.clip(0)

----------------------------------------------------------------------------
(* Time-series alignment                                                   *)

BucketOf(t) == t \div TicksPerBucket

BucketRange(f) ==
    IF DOMAIN f = {} THEN {}
    ELSE BucketOf(Min(DOMAIN f)) .. BucketOf(Max(DOMAIN f))

\* df.set_index(ts).resample(freq).mean(): the mean of the samples of a bucket,
\* NaN for a bucket without samples.
ResampleMean(f) ==
    [b \in BucketRange(f) |->
        LET S == {t \in DOMAIN f : BucketOf(t) = b}
        IN  IF S = {} THEN NaN ELSE SumOver(f, S) \div Cardinality(S)]

\* df.set_index(ts).resample(freq).ffill(): reindex on the bucket starts, each
\* taking the last sample at or before it.
ResampleFfill(f) ==
    [b \in BucketRange(f) |->
        LET S == {t \in DOMAIN f : t <= b * TicksPerBucket}
        IN  IF S = {} THEN NaN ELSE f[Max(S)]]

\* df.set_index(ts).resample(freq).interpolate(): the samples on the bucket
\* starts, the buckets between two of them filled linearly, the buckets after
\* the last one filled with it, the buckets before the first one left NaN.
ResampleInterpolate(f) ==
    LET grid == [b \in BucketRange(f) |->
                    IF b * TicksPerBucket \in DOMAIN f
                    THEN f[b * TicksPerBucket] ELSE NaN]
        valid == {b \in DOMAIN grid : grid[b] # NaN}
    IN  [b \in DOMAIN grid |->
            IF grid[b] # NaN THEN grid[b]
            ELSE LET before == {k \in valid : k < b}
                     after == {k \in valid : k > b}
                 IN  IF before = {} THEN NaN
                     ELSE IF after = {} THEN grid[Max(before)]
                     ELSE LET i == Max(before)
                              j == Min(after)
                          IN  grid[i] + ((grid[j] - grid[i]) * (b - i)) \div (j - i)]

Column(f, c) == [t \in DOMAIN f |-> f[t][c]]

\* pd.concat([...], axis=1).dropna(): the buckets for which every stream has a
\* value, in ascending order.
AlignedIndex(streams) ==
    SortedSeq({b \in UNION {DOMAIN streams[i] : i \in DOMAIN streams} :
                  \A i \in DOMAIN streams :
                      b \in DOMAIN streams[i] /\ streams[i][b] # NaN})

----------------------------------------------------------------------------
(* Program constants (tenths, see the header)                              *)

STATUS_ON_LEVEL == 5        \* Unit_Status > 0.5
GHOST_ALERT_HOURS == 2      \* len(waste_df) >= 2
OVERCOOL_TOLERANCE == 10    \* Room_Temp < Setpoint - 1
VALVE_OPEN_LEVEL == 800     \* Valve_Position > 80
COOLING_ALERT_LOSS == 5000  \* Cooling_Loss.sum() >= 500
TREND_WINDOW == 7           \* tail(7)
MONTH_DAYS == 30            \* total * 30

----------------------------------------------------------------------------
(* Rule evaluation: ghost running                                          *)

\* A classifier that knows daytime windows only: the wrap-around branch is
\* missing, so a window that crosses midnight is empty.
Scheduled_Status_Daytime(h, off_start, off_end) ==
    IF off_start <= h /\ h < off_end THEN "OFF" ELSE "ON"

\* final_v2: the lambda of Scheduled_Status, under the branch the code takes.
Scheduled_Status(h, off_start, off_end) ==
    IF off_start > off_end
    THEN (IF h >= off_start \/ h < off_end THEN "OFF" ELSE "ON")
    ELSE (IF off_start <= h /\ h < off_end THEN "OFF" ELSE "ON")

\* A classifier whose window takes its end hour in: equal start and end make
\* a one-hour window, and every window is an hour longer.
Schedule_Status_Inclusive(h, off_start, off_end) ==
    IF off_start > off_end
    THEN (IF h >= off_start \/ h <= off_end THEN "OFF" ELSE "ON")
    ELSE (IF off_start <= h /\ h <= off_end THEN "OFF" ELSE "ON")

\* real_time_alerts: the lambda of Schedule_Status.
Schedule_Status(h, off_start, off_end) ==
    IF off_start > off_end
    THEN (IF h >= off_start \/ h < off_end THEN "OFF" ELSE "ON")
    ELSE (IF off_start <= h /\ h < off_end THEN "OFF" ELSE "ON")

\* A status rule that takes the level itself for ON (>= instead of >).
Actual_Status_AtLevel(x) == IF x >= STATUS_ON_LEVEL THEN "ON" ELSE "OFF"

\* final_v2: np.where(Unit_Status > 0.5, "ON", "OFF")
Actual_Status(x) == IF x > STATUS_ON_LEVEL THEN "ON" ELSE "OFF"

\* real_time_alerts: lambda x: "ON" if x > 0.5 else "OFF"
Actual_Status_RT(x) == IF x > STATUS_ON_LEVEL THEN "ON" ELSE "OFF"

Energy_Cost(power_kW, cost_rate) == power_kW * cost_rate

\* final_v2, scenario 1: the aligned and classified hourly table df.
GhostFrameV2(inp) ==
    LET p == ResampleMean(inp.p_df.data)
        s == ResampleFfill(inp.s_df.data)
        idx == AlignedIndex(<<p, s>>)
    IN  [i \in 1..Len(idx) |->
            LET b == idx[i]
                hour == (inp.start_hour + b) % 24
            IN  [T_Stamp |-> b,
                 Power_kW |-> p[b],
                 Unit_Status |-> s[b],
                 Actual_Status |-> Actual_Status(s[b]),
                 Hour |-> hour,
                 Scheduled_Status |-> Scheduled_Status(hour, inp.off_start, inp.off_end),
                 Energy_Cost |-> Energy_Cost(p[b], inp.cost_rate)]]

IsWasteV2(r) == r.Actual_Status = "ON" /\ r.Scheduled_Status = "OFF"

waste_df(df) == SelectSeq(df, IsWasteV2)

\* real_time_alerts, scenario 1.
GhostFrameRT(inp) ==
    LET p == ResampleMean(inp.p_df.data)
        s == ResampleFfill(inp.s_df.data)
        idx == AlignedIndex(<<p, s>>)
    IN  [i \in 1..Len(idx) |->
            LET b == idx[i]
                hour == (inp.start_hour + b) % 24
            IN  [T_Stamp |-> b,
                 Power_kW |-> p[b],
                 Status_Binary |-> s[b],
                 Actual_Status |-> Actual_Status_RT(s[b]),
                 Hour |-> hour,
                 Schedule_Status |-> Schedule_Status(hour, inp.off_start, inp.off_end),
                 Energy_Cost |-> Energy_Cost(p[b], inp.cost_rate)]]

IsWasteRT(r) == r.Actual_Status = "ON" /\ r.Schedule_Status = "OFF"

waste(df) == SelectSeq(df, IsWasteRT)

----------------------------------------------------------------------------
(* Rule evaluation: overcooling                                            *)

\* A fault rule that takes a room exactly at the tolerance for overcooled.
Fault_AtTolerance(room, setpoint, valve) ==
    room <= setpoint - OVERCOOL_TOLERANCE /\ valve > VALVE_OPEN_LEVEL

\* final_v2: (Room_Temp < Setpoint - 1) & (Valve_Position > 80)
Fault(room, setpoint, valve) ==
    room < setpoint - OVERCOOL_TOLERANCE /\ valve > VALVE_OPEN_LEVEL

\* real_time_alerts: (Room_Temp < Setpoint - 1) & (Valve_Pct > 80)
Is_Fault(room, setpoint, valve) ==
    room < setpoint - OVERCOOL_TOLERANCE /\ valve > VALVE_OPEN_LEVEL

\* (Setpoint - Room_Temp).clip(0)
Delta_T(room, setpoint) == Clip0(setpoint - room)

\* final_v2: Delta_T * cooling_factor * Fault
Cooling_Loss(delta_t, cooling_factor, fault) ==
    delta_t * cooling_factor * BoolInt(fault)

\* real_time_alerts: Delta_T * cooling_factor * Is_Fault
Wasted_Cost(delta_t, cooling_factor, fault) ==
    delta_t * cooling_factor * BoolInt(fault)

\* final_v2, scenario 2: the aligned 15-minute table df.
CoolingFrameV2(inp) ==
    LET room == ResampleInterpolate(Column(inp.t_df.data, "Room_Temp"))
        setp == ResampleInterpolate(Column(inp.t_df.data, "Setpoint"))
        valve == ResampleFfill(inp.v_df.data)
        idx == AlignedIndex(<<room, setp, valve>>)
    IN  [i \in 1..Len(idx) |->
            LET b == idx[i]
                f == Fault(room[b], setp[b], valve[b])
                dt == Delta_T(room[b], setp[b])
            IN  [Timestamp |-> b,
                 Room_Temp |-> room[b],
                 Setpoint |-> setp[b],
                 Valve_Position |-> valve[b],
                 Fault |-> f,
                 Delta_T |-> dt,
                 Cooling_Loss |-> Cooling_Loss(dt, inp.cooling_factor, f)]]

\* real_time_alerts, scenario 2.
CoolingFrameRT(inp) ==
    LET room == ResampleInterpolate(Column(inp.t_df.data, "Room_Temp"))
        setp == ResampleInterpolate(Column(inp.t_df.data, "Setpoint"))
        valve == ResampleFfill(inp.v_df.data)
        idx == AlignedIndex(<<room, setp, valve>>)
    IN  [i \in 1..Len(idx) |->
            LET b == idx[i]
                f == Is_Fault(room[b], setp[b], valve[b])
                dt == Delta_T(room[b], setp[b])
            IN  [Timestamp |-> b,
                 Room_Temp |-> room[b],
                 Setpoint |-> setp[b],
                 Valve_Pct |-> valve[b],
                 Is_Fault |-> f,
                 Delta_T |-> dt,
                 Wasted_Cost |-> Wasted_Cost(dt, inp.cooling_factor, f)]]

IsFaultRowV2(r) == r.Fault
IsFaultRowRT(r) == r.Is_Fault

----------------------------------------------------------------------------
(* Alerts                                                                  *)

\* final_v2 send_gmail_alert: every exception of the SMTP exchange is caught
\* and shown in the sidebar; the call returns normally either way.
\* transport is what the mail relay does with the message: "sent" or "failed".
send_gmail_alert(transport) == [raised |-> FALSE, dispatch |-> transport]

\* real_time_alerts send_outlook_email: returns (True, ...) or, the exception
\* caught, (False, ...).
send_outlook_email(transport) == [raised |-> FALSE, dispatch |-> transport]

\* final_v2: condition_active of each scenario.
GhostConditionV2(w) == Len(w) >= GHOST_ALERT_HOURS
CoolingConditionV2(df) == SumCol(df, "Cooling_Loss") >= COOLING_ALERT_LOSS

\* A level-triggered alert: due whenever the condition is active, whatever
\* the alert flag says.
AlertDueV2_Level(enable_email, condition_active, alert_active) ==
    enable_email /\ condition_active

\* final_v2: `if enable_email and condition_active and not <alert_active>`.
\* An alert rule that does not look at the Enable Alerts checkbox.
AlertDueV2_Unchecked(enable_email, condition_active, alert_active) ==
    condition_active /\ ~alert_active

AlertDueV2(enable_email, condition_active, alert_active) ==
    enable_email /\ condition_active /\ ~alert_active

\* final_v2: the alert flag after the two `if`s of a scenario branch:
\* set when an alert was due (and the send returned), cleared when the
\* condition is inactive.
AlertStateAfterV2(due, condition_active, alert_active) ==
    IF ~condition_active THEN FALSE
    ELSE IF due THEN TRUE
    ELSE alert_active

\* real_time_alerts: `if enable_email and metrics["hours"] >= 2`,
\*                   `if enable_email and metrics["total_loss"] > 500`.
GhostAlertDueRT(enable_email, m) == enable_email /\ m.hours >= GHOST_ALERT_HOURS
CoolingAlertDueRT(enable_email, m) == enable_email /\ m.total_loss > COOLING_ALERT_LOSS

\* Whether a fault type's alert condition is true on the data of a run,
\* whichever scenario is selected (observed for the log only).
GhostPredicate(a, inp) ==
    /\ ~IsNone(inp.p_df) /\ ~IsNone(inp.s_df)
    /\ IF a = "final_v2"
       THEN GhostConditionV2(waste_df(GhostFrameV2(inp)))
       ELSE Len(waste(GhostFrameRT(inp))) >= GHOST_ALERT_HOURS

CoolingPredicate(a, inp) ==
    /\ ~IsNone(inp.t_df) /\ ~IsNone(inp.v_df)
    /\ IF a = "final_v2"
       THEN CoolingConditionV2(CoolingFrameV2(inp))
       ELSE SumCol(CoolingFrameRT(inp), "Wasted_Cost") > COOLING_ALERT_LOSS

\* What load_latest_csv hands to the script for a feed: final_v2 gets None
\* for a folder without CSV and for a folder that is not there alike.
Loaded(f) == IF app = "final_v2" /\ IsNone(f) THEN None ELSE f

\* Lines 148-151 (final_v2) and 261-264 (real_time_alerts).
LoadedBy(inp) ==
    [p_df |-> Loaded(inp.p_df), s_df |-> Loaded(inp.s_df),
     t_df |-> Loaded(inp.t_df), v_df |-> Loaded(inp.v_df)]

NoFeeds == [p_df |-> None, s_df |-> None, t_df |-> None, v_df |-> None]

\* One run as the log keeps it: the settings it read, whether each fault
\* type's feeds were there and its condition held on them, how it ended, the
\* alert it dispatched ("none", "sent" or "failed") and the alert flags it
\* left behind.
LogEntry(inp, stopped, completed, dispatch, ghost_next, cooling_next) ==
    [scenario |-> inp.scenario,
     enable_email |-> inp.enable_email,
     ghost_feeds |-> ~IsNone(inp.p_df) /\ ~IsNone(inp.s_df),
     cooling_feeds |-> ~IsNone(inp.t_df) /\ ~IsNone(inp.v_df),
     ghost_pred |-> GhostPredicate(app, inp),
     cooling_pred |-> CoolingPredicate(app, inp),
     stopped |-> stopped,
     completed |-> completed,
     dispatch |-> dispatch,
     ghost_alert_active |-> ghost_next,
     cooling_alert_active |-> cooling_next]

NoMetrics == [shown |-> "nothing"]

\* The sidebar widgets: number_input / slider / checkbox / selectbox values.
Sidebar(inp) ==
    [cost_rate |-> inp.cost_rate,
     cooling_factor |-> inp.cooling_factor,
     off_start |-> inp.off_start,
     off_end |-> inp.off_end,
     enable_email |-> inp.enable_email,
     scenario |-> inp.scenario]

----------------------------------------------------------------------------
(* final_v2: one script run                                                *)

\* Lines 148-155: any feed missing stops the run before either scenario.
FeedsMissingV2(inp) ==
    IsNone(inp.p_df) \/ IsNone(inp.s_df) \/ IsNone(inp.t_df) \/ IsNone(inp.v_df)

StoppedV2(inp) ==
    /\ FeedsMissingV2(inp)
    /\ processed_df' = <<>>
    /\ metrics' = NoMetrics
    /\ log' = Append(log, LogEntry(inp, TRUE, FALSE, "none",
                                   ghost_alert_active, cooling_alert_active))
    /\ UNCHANGED <<ghost_alert_active, cooling_alert_active>>

\* The end of a scenario branch: the alert flags are written and the table
\* and figures rendered, unless an exception escaped the send and ended the run.
FinishV2(inp, df, m, due, sent, ghost_next, cooling_next) ==
    IF due /\ sent.raised
    THEN /\ UNCHANGED <<ghost_alert_active, cooling_alert_active>>
         /\ processed_df' = <<>>
         /\ metrics' = NoMetrics
         /\ log' = Append(log, LogEntry(inp, FALSE, FALSE, sent.dispatch,
                                        ghost_alert_active, cooling_alert_active))
    ELSE /\ ghost_alert_active' = ghost_next
         /\ cooling_alert_active' = cooling_next
         /\ processed_df' = df
         /\ metrics' = m
         /\ log' = Append(log, LogEntry(inp, FALSE, TRUE,
                              IF due THEN sent.dispatch ELSE "none",
                              ghost_next, cooling_next))

GhostMetricsV2(w) ==
    [hours |-> Len(w),
     total_cost |-> SumCol(w, "Energy_Cost"),
     monthly |-> SumCol(w, "Energy_Cost") * MONTH_DAYS]

\* Line 285: df[df['Fault']]['Delta_T'].mean(), NaN over no rows.
AvgDeltaTV2(faults) ==
    IF Len(faults) > 0 THEN SumCol(faults, "Delta_T") \div Len(faults) ELSE NaN

\* The figures of the manager view, lines 279-286.
CoolingMetricsV2(df) ==
    [total_loss |-> SumCol(df, "Cooling_Loss"),
     avg_dt |-> AvgDeltaTV2(SelectSeq(df, IsFaultRowV2)),
     monthly |-> SumCol(df, "Cooling_Loss") * MONTH_DAYS]

\* Lines 182-194.
GhostAlertV2(inp, df, w, condition_active, due) ==
    FinishV2(inp, df, GhostMetricsV2(w), due, send_gmail_alert(inp.transport),
             AlertStateAfterV2(due, condition_active, ghost_alert_active),
             cooling_alert_active)

\* Lines 260-271.
CoolingAlertV2(inp, df, condition_active, due) ==
    FinishV2(inp, df, CoolingMetricsV2(df), due, send_gmail_alert(inp.transport),
             ghost_alert_active,
             AlertStateAfterV2(due, condition_active, cooling_alert_active))

GhostRunV2(inp, df, w, condition_active) ==
    GhostAlertV2(inp, df, w, condition_active,
                 AlertDueV2(inp.enable_email, condition_active, ghost_alert_active))

CoolingRunV2(inp, df, condition_active) ==
    CoolingAlertV2(inp, df, condition_active,
                   AlertDueV2(inp.enable_email, condition_active, cooling_alert_active))

GhostEvalV2(inp, df, w) == GhostRunV2(inp, df, w, GhostConditionV2(w))

\* Lines 162-242.
Scenario1V2(inp) ==
    /\ ~FeedsMissingV2(inp)
    /\ inp.scenario = SCENARIO_1
    /\ LET df == GhostFrameV2(inp) IN GhostEvalV2(inp, df, waste_df(df))

\* Lines 247-319.
Scenario2V2(inp) ==
    /\ ~FeedsMissingV2(inp)
    /\ inp.scenario = SCENARIO_2
    /\ LET df == CoolingFrameV2(inp) IN CoolingRunV2(inp, df, CoolingConditionV2(df))

CycleV2(inp) ==
    /\ app = "final_v2"
    /\ UNCHANGED app
    /\ UNCHANGED <<cc_vars, arch_vars>>
    /\ sidebar' = Sidebar(inp)
    /\ raw_feeds' = LoadedBy(inp)
    /\ (StoppedV2(inp) \/ Scenario1V2(inp) \/ Scenario2V2(inp))

----------------------------------------------------------------------------
(* real_time_alerts: one script run                                        *)

\* Lines 220-223 (a feed folder missing) and 274-276 / 340-342 (the selected
\* module's CSVs missing).
StopsRT(inp) ==
    \/ "NoFolder" \in {inp.p_df.kind, inp.s_df.kind, inp.t_df.kind, inp.v_df.kind}
    \/ inp.scenario = SCENARIO_1 /\ (IsNone(inp.p_df) \/ IsNone(inp.s_df))
    \/ inp.scenario = SCENARIO_2 /\ (IsNone(inp.t_df) \/ IsNone(inp.v_df))

StoppedRT(inp) ==
    /\ StopsRT(inp)
    /\ processed_df' = <<>>
    /\ metrics' = NoMetrics
    /\ log' = Append(log, LogEntry(inp, TRUE, FALSE, "none",
                                   ghost_alert_active, cooling_alert_active))

FinishRT(inp, df, m, due, sent) ==
    IF due /\ sent.raised
    THEN /\ processed_df' = <<>>
         /\ metrics' = NoMetrics
         /\ log' = Append(log, LogEntry(inp, FALSE, FALSE, sent.dispatch,
                                        ghost_alert_active, cooling_alert_active))
    ELSE /\ processed_df' = df
         /\ metrics' = m
         /\ log' = Append(log, LogEntry(inp, FALSE, TRUE,
                              IF due THEN sent.dispatch ELSE "none",
                              ghost_alert_active, cooling_alert_active))

\* Lines 300-310.
GhostMetricsRT(w) ==
    [hours |-> Len(w),
     total_cost |-> SumCol(w, "Energy_Cost"),
     trend7 |-> Len(TailN(w, TREND_WINDOW)),
     monthly |-> SumCol(w, "Energy_Cost") * MONTH_DAYS]

AvgDeltaT(faults) ==
    IF Len(faults) > 0 THEN SumCol(faults, "Delta_T") \div Len(faults) ELSE 0

\* Lines 357-368.
CoolingMetricsRT(df) ==
    [intervals |-> Len(SelectSeq(df, IsFaultRowRT)),
     total_loss |-> SumCol(df, "Wasted_Cost"),
     avg_dt |-> AvgDeltaT(SelectSeq(df, IsFaultRowRT)),
     trend7 |-> Len(SelectSeq(TailN(df, TREND_WINDOW), IsFaultRowRT)),
     monthly |-> SumCol(df, "Wasted_Cost") * MONTH_DAYS]

\* Lines 312-316.
GhostAlertRT(inp, df, m) ==
    FinishRT(inp, df, m, GhostAlertDueRT(inp.enable_email, m),
             send_outlook_email(inp.transport))

\* Lines 370-379.
CoolingAlertRT(inp, df, m) ==
    FinishRT(inp, df, m, CoolingAlertDueRT(inp.enable_email, m),
             send_outlook_email(inp.transport))

\* Lines 272-332.
Scenario1RT(inp) ==
    /\ ~StopsRT(inp)
    /\ inp.scenario = SCENARIO_1
    /\ LET df == GhostFrameRT(inp) IN GhostAlertRT(inp, df, GhostMetricsRT(waste(df)))

\* Lines 338-396.
Scenario2RT(inp) ==
    /\ ~StopsRT(inp)
    /\ inp.scenario = SCENARIO_2
    /\ LET df == CoolingFrameRT(inp) IN CoolingAlertRT(inp, df, CoolingMetricsRT(df))

\* The script keeps no alert state: neither flag exists in its session state.
CycleRT(inp) ==
    /\ app = "real_time_alerts"
    /\ UNCHANGED <<app, ghost_alert_active, cooling_alert_active>>
    /\ UNCHANGED <<cc_vars, arch_vars>>
    /\ sidebar' = Sidebar(inp)
    /\ raw_feeds' = LoadedBy(inp)
    /\ (StoppedRT(inp) \/ Scenario1RT(inp) \/ Scenario2RT(inp))

----------------------------------------------------------------------------
(* command_center: analytics (app_utils.compute_analytics)                 *)
(*                                                                         *)
(* Temperatures and the temperature sliders are tenths of a degree,        *)
(* airflow_pct and the satisfied-ratio slider whole percent, COST_PER_KWH  *)
(* whole rupees.  Money is counted in units of 1/400000 rupee, the unit in *)
(* which (airflow_pct / 100) ** 3 * 10 * 0.25 * COST_PER_KWH is exactly    *)
(* airflow_pct^3 * COST_PER_KWH.  Assets and files are numbered in their   *)
(* sort order; a missing cell is NaN.                                      *)

NoFile == 0                     \* get_latest_csv(...) is None / last_loaded_file is None
TOP_ACTIONS == 3                \* head(3)

NotNa(x) == x # NaN

\* The rows of df at the positions S, in df's order.
SelectIdx(df, S) ==
    LET idx == SortedSeq(S) IN [k \in 1..Len(idx) |-> df[idx[k]]]

RECURSIVE Flatten(_)
Flatten(ss) == IF ss = <<>> THEN <<>> ELSE ss[1] \o Flatten(Tail(ss))

\* app_utils.preprocess: ahu_status "ON" / "OFF" becomes 1 / 0, anything else
\* a missing value.
preprocess(csv) ==
    [i \in 1..Len(csv) |->
        [csv[i] EXCEPT !.ahu_status =
            IF @ = "ON" THEN 1 ELSE IF @ = "OFF" THEN 0 ELSE NaN]]

\* ---- ZONE ----
ZoneSubset(r) ==
    NotNa(r.zone_temp) /\ NotNa(r.zone_setpoint) /\ NotNa(r.occupancy) /\ NotNa(r.zone_id)

overcooled(r, cfg) ==
    r.zone_temp < r.zone_setpoint - cfg.ZONE_OVERCOOL_TOL /\ r.occupancy = 0

\* (zone_setpoint - zone_temp).clip(lower=0) * 0.3 * COST_PER_KWH:
\* a tenth of a degree is 0.03 * COST rupees = 12000 * COST units.
ZoneEstCost(r, cfg) ==
    Clip0(r.zone_setpoint - r.zone_temp) * 12000 * cfg.COST_PER_KWH

zones(df, cfg) ==
    LET kept == SelectIdx(df, {i \in 1..Len(df) : ZoneSubset(df[i])})
    IN  [k \in 1..Len(kept) |->
            [timestamp |-> kept[k].timestamp,
             zone_id |-> kept[k].zone_id,
             zone_temp |-> kept[k].zone_temp,
             zone_setpoint |-> kept[k].zone_setpoint,
             occupancy |-> kept[k].occupancy,
             overcooled |-> overcooled(kept[k], cfg),
             est_cost |-> ZoneEstCost(kept[k], cfg)]]

IsOvercooledRow(r) == r.overcooled

ZoneFlags(df, cfg) == SelectSeq(zones(df, cfg), IsOvercooledRow)

\* ---- AHU ----
ZoneAhuSubset(r) ==
    /\ NotNa(r.zone_temp) /\ NotNa(r.zone_setpoint) /\ NotNa(r.occupancy)
    /\ NotNa(r.ahu_id) /\ NotNa(r.zone_id)

zones_ahu(df) == SelectIdx(df, {i \in 1..Len(df) : ZoneAhuSubset(df[i])})

zone_satisfied(r, cfg) ==
    r.zone_temp <= r.zone_setpoint + cfg.ZONE_SAT_TOL \/ r.occupancy = 0

\* groupby(["timestamp", "ahu_id"]): the keys in sorted order.
KeyLess(a, b) == a[1] < b[1] \/ (a[1] = b[1] /\ a[2] < b[2])

RECURSIVE SortedKeys(_)
SortedKeys(S) ==
    IF S = {} THEN <<>>
    ELSE LET k == CHOOSE x \in S : \A y \in S \ {x} : KeyLess(x, y)
         IN  <<k>> \o SortedKeys(S \ {k})

ahu_zone_stats(df, cfg) ==
    LET za == zones_ahu(df)
        keys == SortedKeys({<<za[i].timestamp, za[i].ahu_id>> : i \in 1..Len(za)})
    IN  [g \in 1..Len(keys) |->
            LET members == {i \in 1..Len(za) :
                               <<za[i].timestamp, za[i].ahu_id>> = keys[g]}
            IN  [timestamp |-> keys[g][1],
                 ahu_id |-> keys[g][2],
                 total_zones |-> Cardinality(members),
                 satisfied_zones |->
                     Cardinality({i \in members : zone_satisfied(za[i], cfg)})]]

\* A rule that wants the satisfied ratio strictly above the threshold.
ahu_no_demand_Strict(ahu_status, airflow_pct, satisfied_zones, total_zones, cfg) ==
    /\ ahu_status = 1
    /\ airflow_pct >= cfg.AHU_AIRFLOW_HIGH
    /\ 100 * satisfied_zones > cfg.AHU_ZONE_SAT_RATIO * total_zones

\* (ahu_status == 1) & (airflow_pct >= AHU_AIRFLOW_HIGH)
\*                   & (satisfied_ratio >= AHU_ZONE_SAT_RATIO),
\* the ratio satisfied_zones / total_zones against a threshold of whole percent.
ahu_no_demand(ahu_status, airflow_pct, satisfied_zones, total_zones, cfg) ==
    /\ ahu_status = 1
    /\ airflow_pct >= cfg.AHU_AIRFLOW_HIGH
    /\ 100 * satisfied_zones >= cfg.AHU_ZONE_SAT_RATIO * total_zones

\* ((airflow_pct / 100) ** 3 * 10) * TIME_STEP_HOURS * COST_PER_KWH
AhuEstCost(airflow_pct, cfg) ==
    IF NotNa(airflow_pct)
    THEN airflow_pct * airflow_pct * airflow_pct * cfg.COST_PER_KWH
    ELSE NaN

\* pd.merge(ahu_zone_stats, df[[...]], on=["timestamp", "ahu_id"]): one row per
\* row of df that carries the key of a group.
MergeRows(s, df, cfg) ==
    LET right == SelectIdx(df, {i \in 1..Len(df) :
                                   df[i].timestamp = s.timestamp /\ df[i].ahu_id = s.ahu_id})
    IN  [k \in 1..Len(right) |->
            [timestamp |-> s.timestamp,
             ahu_id |-> s.ahu_id,
             total_zones |-> s.total_zones,
             satisfied_zones |-> s.satisfied_zones,
             airflow_pct |-> right[k].airflow_pct,
             ahu_status |-> right[k].ahu_status,
             ahu_no_demand |-> ahu_no_demand(right[k].ahu_status, right[k].airflow_pct,
                                             s.satisfied_zones, s.total_zones, cfg),
             est_cost |-> AhuEstCost(right[k].airflow_pct, cfg)]]

ahu_data(df, cfg) ==
    LET stats == ahu_zone_stats(df, cfg)
    IN  Flatten([g \in 1..Len(stats) |-> MergeRows(stats[g], df, cfg)])

IsNoDemandRow(r) == r.ahu_no_demand

AhuFlags(df, cfg) == SelectSeq(ahu_data(df, cfg), IsNoDemandRow)

\* ---- CHILLER ----
ChillerSubset(r) ==
    NotNa(r.chiller_id) /\ NotNa(r.chw_supply_temp) /\ NotNa(r.chw_return_temp)

chiller_delta_t(r) == r.chw_return_temp - r.chw_supply_temp

\* A rule that takes a dT exactly at the threshold for low.
low_delta_t_AtThreshold(r, cfg) == chiller_delta_t(r) <= cfg.CHILLER_LOW_DT

low_delta_t(r, cfg) == chiller_delta_t(r) < cfg.CHILLER_LOW_DT

\* (CHILLER_LOW_DT - delta_t).clip(lower=0) * 0.05 * 500 * TIME_STEP_HOURS * COST:
\* a tenth of a degree is 0.625 * COST rupees = 250000 * COST units.
ChillerEstCost(r, cfg) ==
    Clip0(cfg.CHILLER_LOW_DT - chiller_delta_t(r)) * 250000 * cfg.COST_PER_KWH

chillers(df, cfg) ==
    LET kept == SelectIdx(df, {i \in 1..Len(df) : ChillerSubset(df[i])})
    IN  [k \in 1..Len(kept) |->
            [timestamp |-> kept[k].timestamp,
             chiller_id |-> kept[k].chiller_id,
             delta_t |-> chiller_delta_t(kept[k]),
             low_delta_t |-> low_delta_t(kept[k], cfg),
             est_cost |-> ChillerEstCost(kept[k], cfg)]]

IsLowDeltaTRow(r) == r.low_delta_t

ChillerFlags(df, cfg) == SelectSeq(chillers(df, cfg), IsLowDeltaTRow)

compute_analytics(df, cfg) ==
    <<ZoneFlags(df, cfg), AhuFlags(df, cfg), ChillerFlags(df, cfg)>>

----------------------------------------------------------------------------
(* command_center: one script run                                          *)

\* Lines 134-138 and the KPI strip, 152-156.
total_cost(zf, af, chf) ==
    SumCol(zf, "est_cost") + SumCol(af, "est_cost") + SumCol(chf, "est_cost")

nunique(flags, c) == Cardinality({flags[i][c] : i \in 1..Len(flags)})

CCMetrics(shown, zf, af, chf) ==
    [shown |-> shown,
     total_cost |-> total_cost(zf, af, chf),
     zones |-> nunique(zf, "zone_id"),
     ahus |-> nunique(af, "ahu_id"),
     chillers |-> nunique(chf, "chiller_id")]

\* for asset, g in flags.groupby(c): dict(Type=..., Asset=asset, Cost=g["est_cost"].sum())
TypeActions(flags, c, type) ==
    LET ids == SortedSeq({flags[i][c] : i \in 1..Len(flags)})
    IN  [k \in 1..Len(ids) |->
            [Type |-> type,
             Asset |-> ids[k],
             Cost |-> SumCol(SelectIdx(flags, {i \in 1..Len(flags) : flags[i][c] = ids[k]}),
                             "est_cost")]]

\* Lines 218-282: the list `actions`, each entry under its position (the index
\* label of the data frame built from it).
actions(zf, af, chf) ==
    LET all == TypeActions(zf, "zone_id", "Overcooled Zone")
               \o TypeActions(af, "ahu_id", "AHU Excess Airflow")
               \o TypeActions(chf, "chiller_id", "Low dT (Chiller)")
    IN  [k \in 1..Len(all) |->
            [label |-> k - 1, Type |-> all[k].Type, Asset |-> all[k].Asset,
             Cost |-> all[k].Cost]]

\* sort_values("Cost", ascending=False): equal costs keep their order.
RECURSIVE SortByCostDesc(_)
SortByCostDesc(s) ==
    IF s = <<>> THEN <<>>
    ELSE LET top == Max({s[i].Cost : i \in 1..Len(s)})
             p == Min({i \in 1..Len(s) : s[i].Cost = top})
         IN  <<s[p]>> \o SortByCostDesc(SubSeq(s, 1, p - 1) \o SubSeq(s, p + 1, Len(s)))

\* A ranking that keeps the first entries of `actions` as they were appended,
\* without sorting them by cost.
TopActions_Unsorted(acts) ==
    IF Len(acts) <= TOP_ACTIONS THEN acts ELSE SubSeq(acts, 1, TOP_ACTIONS)

\* Line 284: sort_values("Cost", ascending=False).head(3).
TopActions(acts) ==
    IF Len(acts) <= TOP_ACTIONS THEN SortByCostDesc(acts)
    ELSE SubSeq(SortByCostDesc(acts), 1, TOP_ACTIONS)

action_id(r) == <<r.Type, r.Asset>>

\* The keys of the 'Action Taken' buttons a render of `top` offers.
PendingKeys(top, acks) ==
    {top[i].label : i \in {j \in 1..Len(top) : action_id(top[j]) \notin acks}}

NoButton == [button |-> "none", key |-> 0, asset |-> 0]
ForceReload == [button |-> "force", key |-> 0, asset |-> 0]

\* st.button(f"Action Taken - {r['Asset']}", key=f"ack_{i}"): a button is known
\* to the session by its key (the index label of the row) and its text (the
\* asset); the fault type is in neither.
AckButton(k, a) == [button |-> "ack", key |-> k, asset |-> a]

\* The 'Action Taken' buttons a render of `top` offers.
PendingButtons(top, acks) ==
    {AckButton(top[i].label, top[i].Asset) :
        i \in {j \in 1..Len(top) : action_id(top[j]) \notin acks}}

\* Lines 286-295: the pressed button, if this run renders it, acknowledges the
\* action this run renders it for, and reruns the script.
AckPressed(pressed, top, acks) ==
    IF pressed \in PendingButtons(top, acks)
    THEN acks \cup {action_id(top[i]) :
                       i \in {j \in 1..Len(top) : /\ top[j].label = pressed.key
                                                  /\ top[j].Asset = pressed.asset}}
    ELSE acks

CCLogEntry(inp) == [pressed |-> inp.pressed, latest_file |-> inp.latest_file]

\* Lines 97-100: no CSV yet; the script warns, sleeps and reruns.
CCWaiting(inp, df0, last0) ==
    /\ inp.latest_file = NoFile
    /\ session_df' = df0
    /\ last_loaded_file' = last0
    /\ UNCHANGED ack_actions
    /\ zone_flags' = <<>>
    /\ ahu_flags' = <<>>
    /\ chiller_flags' = <<>>
    /\ actions_df' = <<>>
    /\ metrics' = [shown |-> "waiting"]

\* Lines 284-295.  An empty list of actions has no "Cost" column: sort_values
\* raises and the run ends there, after the KPI strip.
CCFinish(inp, df1, zf, af, chf, acts) ==
    /\ session_df' = df1
    /\ last_loaded_file' = inp.latest_file
    /\ zone_flags' = zf
    /\ ahu_flags' = af
    /\ chiller_flags' = chf
    /\ IF acts = <<>>
       THEN /\ actions_df' = <<>>
            /\ UNCHANGED ack_actions
            /\ metrics' = CCMetrics("error", zf, af, chf)
       ELSE /\ actions_df' = TopActions(acts)
            /\ ack_actions' = AckPressed(inp.pressed, TopActions(acts), ack_actions)
            /\ metrics' = CCMetrics("ok", zf, af, chf)

CCRender(inp, df1, zf, af, chf) == CCFinish(inp, df1, zf, af, chf, actions(zf, af, chf))

\* Line 129.
CCAnalyse(inp, df1) ==
    CCRender(inp, df1,
             compute_analytics(df1.data, inp.cfg)[1],
             compute_analytics(df1.data, inp.cfg)[2],
             compute_analytics(df1.data, inp.cfg)[3])

\* Lines 102-109.
CCLoaded(inp, df0, last0) ==
    /\ inp.latest_file # NoFile
    /\ CCAnalyse(inp, IF last0 # inp.latest_file THEN Frame(preprocess(inp.csv)) ELSE df0)

CCRunFrom(inp, df0, last0) == CCWaiting(inp, df0, last0) \/ CCLoaded(inp, df0, last0)

\* Lines 81-84: Force Reload forgets the table and the file name and reruns.
CCRun(inp) ==
    /\ app = "command_center"
    /\ UNCHANGED <<app, ghost_alert_active, cooling_alert_active, processed_df>>
    /\ UNCHANGED <<raw_feeds, arch_vars>>
    /\ sidebar' = inp.cfg
    /\ log' = Append(log, CCLogEntry(inp))
    /\ IF inp.pressed.button = "force"
       THEN CCRunFrom(inp, None, NoFile)
       ELSE CCRunFrom(inp, session_df, last_loaded_file)

----------------------------------------------------------------------------
(* real_time_alerts: archive_old_csvs                                      *)

\* A CSV file on disk: its folder, its age in seconds (time.time() minus its
\* modification time; NaN when os.path.getmtime raises) and whether it is still
\* in its folder.
CsvFile(folder, age) == [folder |-> folder, age |-> age, present |-> TRUE]

FOLDERS == <<"power", "status", "temp", "valve">>

SECONDS_PER_HOUR == 3600

\* A staleness test that also takes a file exactly at the age margin.
is_stale_AtMargin(f, age_hours) ==
    IF f.age = NaN THEN FALSE ELSE f.age >= age_hours * SECONDS_PER_HOUR

\* Lines 170-174.
is_stale(f, age_hours) ==
    IF f.age = NaN THEN FALSE ELSE f.age > age_hours * SECONDS_PER_HOUR

\* Line 178.
NewSummary == [moved |-> 0, zipped |-> 0, skipped |-> 0, errors |-> 0]

NoCall == [pc |-> "idle", folder |-> 1, age_hours |-> 1, files |-> {}]

\* glob.glob(os.path.join(src, "*.csv"))
glob(folder) == {i \in DOMAIN csv_files :
                    csv_files[i].present /\ csv_files[i].folder = folder}

\* The call is entered (Archive Now, or Auto Archive on a refresh).
ArchiveEnter(age_hours) ==
    /\ call.pc = "idle"
    /\ call' = [pc |-> "folder", folder |-> 1, age_hours |-> age_hours, files |-> {}]
    /\ summary' = NewSummary
    /\ UNCHANGED <<csv_files, src_folders, archived>>

\* Lines 180-186: the next folder; a missing one is counted as an error.
ArchiveFolder ==
    /\ call.pc = "folder"
    /\ call.folder <= Len(FOLDERS)
    /\ IF FOLDERS[call.folder] \notin src_folders
       THEN /\ summary' = [summary EXCEPT !.errors = @ + 1]
            /\ call' = [call EXCEPT !.folder = @ + 1]
       ELSE /\ summary' = summary
            /\ call' = IF glob(FOLDERS[call.folder]) = {}
                       THEN [call EXCEPT !.folder = @ + 1]
                       ELSE [call EXCEPT !.pc = "files",
                                         !.files = glob(FOLDERS[call.folder])]
    /\ UNCHANGED <<csv_files, src_folders, archived>>

\* The loop over `files` moves on: to the next file, or to the next folder.
AfterFile(f) ==
    IF call.files = {f}
    THEN [call EXCEPT !.pc = "folder", !.folder = @ + 1, !.files = {}]
    ELSE [call EXCEPT !.files = @ \ {f}]

\* Lines 188-191: a file that is not stale is skipped.
ArchiveSkip ==
    /\ call.pc = "files"
    /\ \E f \in call.files :
          /\ ~is_stale(csv_files[f], call.age_hours)
          /\ summary' = [summary EXCEPT !.skipped = @ + 1]
          /\ call' = AfterFile(f)
    /\ UNCHANGED <<csv_files, src_folders, archived>>

\* An archiver that removes the source file before it writes the zip: when the
\* zip cannot be written the file is gone.
ArchiveZip_RemoveFirst ==
    /\ call.pc = "files"
    /\ \E f \in call.files, outcome \in {"ok", "makedirs_raises", "zip_raises",
                                         "remove_raises"} :
          /\ is_stale(csv_files[f], call.age_hours)
          /\ archived' = IF outcome = "ok" THEN archived \cup {f} ELSE archived
          /\ csv_files' = IF outcome \in {"ok", "zip_raises"}
                          THEN [csv_files EXCEPT ![f].present = FALSE]
                          ELSE csv_files
          /\ summary' = IF outcome = "ok"
                        THEN [summary EXCEPT !.zipped = @ + 1]
                        ELSE IF outcome = "makedirs_raises" THEN summary
                        ELSE [summary EXCEPT !.errors = @ + 1]
          /\ call' = IF outcome = "makedirs_raises"
                     THEN [call EXCEPT !.pc = "raised"]
                     ELSE AfterFile(f)
    /\ UNCHANGED src_folders

\* Lines 193-207: a stale file is appended to the zip of its day and removed.
\* os.makedirs raises out of the call; ZipFile / zf.write raising leaves the
\* file where it is; os.remove raising leaves it there after it was zipped.
ArchiveZip ==
    /\ call.pc = "files"
    /\ \E f \in call.files, outcome \in {"ok", "makedirs_raises", "zip_raises",
                                         "remove_raises"} :
          /\ is_stale(csv_files[f], call.age_hours)
          /\ archived' = IF outcome \in {"ok", "remove_raises"}
                         THEN archived \cup {f} ELSE archived
          /\ csv_files' = IF outcome = "ok"
                          THEN [csv_files EXCEPT ![f].present = FALSE]
                          ELSE csv_files
          /\ summary' = IF outcome = "ok"
                        THEN [summary EXCEPT !.zipped = @ + 1]
                        ELSE IF outcome = "makedirs_raises" THEN summary
                        ELSE [summary EXCEPT !.errors = @ + 1]
          /\ call' = IF outcome = "makedirs_raises"
                     THEN [call EXCEPT !.pc = "raised"]
                     ELSE AfterFile(f)
    /\ UNCHANGED src_folders

\* Line 209: return summary.
ArchiveReturn ==
    /\ call.pc = "folder"
    /\ call.folder > Len(FOLDERS)
    /\ call' = [call EXCEPT !.pc = "returned"]
    /\ UNCHANGED <<csv_files, src_folders, archived, summary>>

----------------------------------------------------------------------------
(* Inputs of a script run                                                  *)

Hours == 0..23                          \* the sliders' range

Ticks == 0 .. (MaxBuckets * TicksPerBucket - 1)
BucketStarts == {b * TicksPerBucket : b \in 0 .. (MaxBuckets - 1)}

ConstFeed(T, v) == Frame([t \in T |-> v])

\* Every feed with at most n samples at the ticks of T, valued in V.
Feeds(T, V, n) ==
    {Frame(f) : f \in UNION {[S -> V] : S \in {X \in SUBSET T : Cardinality(X) <= n}}}

TempRow(room, setpoint) == [Room_Temp |-> room, Setpoint |-> setpoint]

\* The widget defaults, over a two-hour window from 22:00 on which the unit
\* runs at 5 kW, the room is at setpoint and the valve is 90 % open.
DefaultInput ==
    [start_hour |-> 22,
     p_df |-> ConstFeed({0, TicksPerBucket}, 50),
     s_df |-> ConstFeed({0, TicksPerBucket}, 10),
     t_df |-> ConstFeed({0}, TempRow(220, 220)),
     v_df |-> ConstFeed({0}, 900),
     off_start |-> 22,
     off_end |-> 6,
     cost_rate |-> 12,
     cooling_factor |-> 150,
     enable_email |-> FALSE,
     scenario |-> SCENARIO_1,
     transport |-> "sent"]

\* A monitoring session: the unit is running or stopped overnight, the room is
\* overcooled or at setpoint, the operator switches scenario and alerts.
SessionInputs ==
    {[DefaultInput EXCEPT !.s_df = s, !.t_df = t, !.enable_email = e,
                          !.scenario = sc, !.transport = tr] :
        s \in {ConstFeed({0, TicksPerBucket}, 10), ConstFeed({0, TicksPerBucket}, 0)},
        t \in {ConstFeed({0}, TempRow(180, 220)), ConstFeed({0}, TempRow(220, 220))},
        e \in BOOLEAN,
        sc \in {SCENARIO_1, SCENARIO_2},
        tr \in {"sent", "failed"}}

\* Feeds missing: no CSV in a folder, or (real_time_alerts) no folder.
MissingInputs ==
    {[DefaultInput EXCEPT !.p_df = f, !.scenario = sc, !.enable_email = e] :
        f \in {None, NoFolder}, sc \in {SCENARIO_1, SCENARIO_2}, e \in BOOLEAN}

\* Every schedule, on a one-hour window at every hour of the day.
ScheduleInputs ==
    {[DefaultInput EXCEPT !.start_hour = h, !.off_start = a, !.off_end = b,
                          !.p_df = ConstFeed({0}, 50), !.s_df = ConstFeed({0}, 10)] :
        h \in Hours, a \in Hours, b \in Hours}

\* Ghost running: any power feed under a unit that is on, and a steady 5 kW
\* under any status feed (0, 0.5 and 1), from 22:00 under two schedules.
GhostInputs ==
    {[DefaultInput EXCEPT !.p_df = p, !.s_df = s, !.off_start = a] :
        p \in Feeds(Ticks, {0, 50}, MaxBuckets),
        s \in {ConstFeed(BucketStarts, 10)},
        a \in {22, 23}}
    \cup
    {[DefaultInput EXCEPT !.p_df = p, !.s_df = s, !.off_start = a] :
        p \in {ConstFeed(BucketStarts, 50)},
        s \in Feeds(Ticks, {0, 5, 10}, MaxSamples),
        a \in {22, 23}}

\* Overcooling: any temperature feed sampled on the grid under a valve at 80 %
\* or 90 %, and an overcooled room under any valve feed.
CoolingInputs ==
    {[DefaultInput EXCEPT !.scenario = SCENARIO_2, !.t_df = t, !.v_df = v,
                          !.cooling_factor = cf] :
        t \in Feeds(BucketStarts,
                    {TempRow(r, sp) : r \in {180, 210, 240}, sp \in {220, 250}},
                    MaxSamples),
        v \in {ConstFeed(BucketStarts, 900), ConstFeed(BucketStarts, 800)},
        cf \in {0, 150}}
    \cup
    {[DefaultInput EXCEPT !.scenario = SCENARIO_2, !.t_df = t, !.v_df = v,
                          !.cooling_factor = cf] :
        t \in {ConstFeed(BucketStarts, TempRow(180, 220))},
        v \in Feeds(Ticks, {800, 900}, MaxSamples),
        cf \in {0, 150}}

\* The temperature or the valve feed missing, the other feeds there.
MissingCoolingInputs ==
    {[DefaultInput EXCEPT !.t_df = f, !.scenario = sc] :
        f \in {None, NoFolder}, sc \in {SCENARIO_1, SCENARIO_2}}
    \cup
    {[DefaultInput EXCEPT !.v_df = f, !.scenario = sc] :
        f \in {None, NoFolder}, sc \in {SCENARIO_1, SCENARIO_2}}

\* A steady 5 kW over a window of FillWindow hours, the status sampled once at
\* the start of the window or once an hour.
WindowStarts == {b * TicksPerBucket : b \in 0 .. (FillWindow - 1)}

FillInputs ==
    {[DefaultInput EXCEPT !.p_df = ConstFeed(WindowStarts, 50), !.s_df = s,
                          !.off_start = a] :
        s \in {ConstFeed({0}, 0), ConstFeed({0}, 10), ConstFeed(WindowStarts, 10)},
        a \in {22, 23}}

\* A window of TrendSpan buckets, all of them OFF-scheduled from 22:00: the unit
\* on or off in each hour under a steady 5 kW, or the room overcooled or at
\* setpoint in each quarter under a valve 90 % open.
TrendStarts == {b * TicksPerBucket : b \in 0 .. (TrendSpan - 1)}

TrendInputs ==
    {[DefaultInput EXCEPT !.p_df = ConstFeed(TrendStarts, 50), !.s_df = Frame(s)] :
        s \in [TrendStarts -> {0, 10}]}
    \cup
    {[DefaultInput EXCEPT !.scenario = SCENARIO_2, !.v_df = ConstFeed(TrendStarts, 900),
                          !.t_df = Frame(t)] :
        t \in [TrendStarts -> {TempRow(180, 220), TempRow(220, 220)}]}

\* Every schedule over a whole day from midnight, the unit on at 5 kW.
DayStarts == {h * TicksPerBucket : h \in Hours}

DayInputs ==
    {[DefaultInput EXCEPT !.start_hour = 0, !.off_start = a, !.off_end = b,
                          !.p_df = ConstFeed(DayStarts, 50),
                          !.s_df = ConstFeed(DayStarts, 10)] :
        a \in Hours, b \in Hours}

\* The families of inputs a single run is evaluated on.
EvalInputs ==
    <<ScheduleInputs, GhostInputs, CoolingInputs, MissingInputs,
      MissingCoolingInputs, FillInputs, TrendInputs, DayInputs>>

\* ---- command_center ----

\* The slider and number_input defaults.
DefaultCfg ==
    [ZONE_OVERCOOL_TOL |-> 10,
     ZONE_SAT_TOL |-> 5,
     AHU_AIRFLOW_HIGH |-> 60,
     AHU_ZONE_SAT_RATIO |-> 80,
     CHILLER_LOW_DT |-> 40,
     COST_PER_KWH |-> 10]

\* A CSV row: zone 1 of AHU 1, occupied and just satisfied (22.5 C against a
\* setpoint of 22 C), the AHU on at 60 % airflow, chiller 1 at a dT of 5 C.
DefaultRow ==
    [timestamp |-> 1, zone_id |-> 1, ahu_id |-> 1,
     zone_temp |-> 225, zone_setpoint |-> 220, occupancy |-> 1,
     airflow_pct |-> 60, ahu_status |-> "ON",
     chiller_id |-> 1, chw_supply_temp |-> 70, chw_return_temp |-> 120]

UnsatisfiedRow == [DefaultRow EXCEPT !.zone_id = 2, !.zone_temp = 230]

SeqsUpTo(S, n) == UNION {[1..k -> S] : k \in 0..n}

CCInput(csv, cfg) ==
    [latest_file |-> 1, csv |-> csv, cfg |-> cfg, pressed |-> NoButton]

\* AHU rows: satisfied and unsatisfied zones under three (timestamp, ahu_id)
\* keys, the AHU below the airflow threshold or off, and a row without zone.
AhuRows ==
    {[DefaultRow EXCEPT !.timestamp = k[1], !.ahu_id = k[2], !.zone_id = z[1],
                        !.zone_temp = z[2]] :
        k \in {<<1, 1>>, <<1, 2>>, <<2, 1>>}, z \in {<<1, 225>>, <<2, 230>>}}
    \cup
    {[DefaultRow EXCEPT !.airflow_pct = a[1], !.ahu_status = a[2]] :
        a \in {<<55, "ON">>, <<60, "OFF">>}}
    \cup
    {[DefaultRow EXCEPT !.zone_id = NaN, !.zone_temp = NaN, !.zone_setpoint = NaN]}

\* Zone rows: overcooled or at the tolerance, occupied or not, or unread.
ZoneRows ==
    {[DefaultRow EXCEPT !.zone_id = z, !.zone_temp = c[1], !.occupancy = c[2]] :
        z \in {1, 2}, c \in {<<205, 0>>, <<210, 0>>, <<205, 1>>, <<NaN, 0>>}}

\* Chiller rows: a dT of 3, 4 and 5 C on two chillers, or no chiller.
ChillerRows ==
    {[DefaultRow EXCEPT !.chiller_id = c, !.chw_return_temp = t] :
        c \in {1, 2}, t \in {100, 110, 120}}
    \cup
    {[DefaultRow EXCEPT !.chiller_id = NaN]}

\* The zones of one AHU, each satisfied or not, under three ratio thresholds.
RatioInputs ==
    {CCInput(csv, [DefaultCfg EXCEPT !.AHU_ZONE_SAT_RATIO = p]) :
        csv \in SeqsUpTo({DefaultRow, UnsatisfiedRow}, MaxZones), p \in {60, 75, 80}}

\* Two rows under other slider settings.
CfgInputs ==
    {CCInput(csv, [DefaultCfg EXCEPT !.AHU_AIRFLOW_HIGH = a, !.ZONE_SAT_TOL = t,
                                     !.COST_PER_KWH = c]) :
        csv \in SeqsUpTo({DefaultRow, UnsatisfiedRow}, 2),
        a \in {55, 60, 65}, t \in {0, 5, 10}, c \in {5, 10, 30}}

\* One chiller row under other dT thresholds and rates.
ChillerCfgInputs ==
    {CCInput(csv, [DefaultCfg EXCEPT !.CHILLER_LOW_DT = d, !.COST_PER_KWH = c]) :
        csv \in SeqsUpTo(ChillerRows, 1), d \in {30, 40, 50}, c \in {5, 10}}

\* Rows that flag a zone and maybe a chiller at once: zones 1 and 2 overcooled
\* by 2 C over chillers 1 and 2 at a dT of 3 C, or by 1.5 C over a dT of 5 C.
RankRows ==
    {[DefaultRow EXCEPT !.zone_id = z, !.zone_temp = x[1], !.occupancy = 0,
                        !.chiller_id = c, !.chw_return_temp = x[2]] :
        z \in {1, 2}, c \in {1, 2}, x \in {<<200, 100>>, <<205, 120>>}}

RankInputs == {CCInput(csv, DefaultCfg) : csv \in SeqsUpTo(RankRows, MaxRows)}

CCEvalInputs ==
    RankInputs
    \cup
    {CCInput(csv, DefaultCfg) :
        csv \in SeqsUpTo(AhuRows, MaxRows) \cup SeqsUpTo(ZoneRows, MaxRows)
                \cup SeqsUpTo(ChillerRows, MaxRows)}
    \cup RatioInputs
    \cup CfgInputs
    \cup ChillerCfgInputs
    \cup {[CCInput(<<>>, DefaultCfg) EXCEPT !.latest_file = NoFile]}

\* A monitoring session: up to MaxFiles CSVs arrive, each one of four tables
\* (nothing flagged; zone 2 and chiller 2 flagged; chiller 2 alone flagged), and
\* the operator moves the airflow slider.
SessionTables ==
    {<<DefaultRow>>,
     <<UnsatisfiedRow>>,
     <<DefaultRow, [DefaultRow EXCEPT !.zone_id = 2, !.zone_temp = 205, !.occupancy = 0],
       [DefaultRow EXCEPT !.chiller_id = 2, !.chw_return_temp = 100]>>,
     <<DefaultRow, [DefaultRow EXCEPT !.chiller_id = 2, !.chw_return_temp = 100]>>}

SessionCfgs == {DefaultCfg, [DefaultCfg EXCEPT !.AHU_AIRFLOW_HIGH = 65]}

----------------------------------------------------------------------------
(* Specifications                                                          *)

\* No archive call under way and nothing on disk to archive.
ArchIdle ==
    /\ csv_files = <<>>
    /\ src_folders = {"power", "status", "temp", "valve"}
    /\ archived = {}
    /\ summary = NewSummary
    /\ call = NoCall

\* The command center's session state before its first run (lines 29-31).
CCIdle ==
    /\ session_df = None
    /\ last_loaded_file = NoFile
    /\ ack_actions = {}
    /\ zone_flags = <<>>
    /\ ahu_flags = <<>>
    /\ chiller_flags = <<>>
    /\ actions_df = <<>>

DashInit ==
    /\ app \in {"final_v2", "real_time_alerts"}
    /\ ghost_alert_active = FALSE
    /\ cooling_alert_active = FALSE
    /\ processed_df = <<>>
    /\ metrics = NoMetrics
    /\ raw_feeds = NoFeeds
    /\ sidebar \in {Sidebar(DefaultInput)}
    /\ log = <<>>
    /\ CCIdle
    /\ ArchIdle

vars == <<dash_vars, cc_vars, arch_vars>>

\* A session of up to MaxCycles script runs in which the operator switches
\* scenario and alerts at will.
Init == DashInit

SessionV2 ==
    /\ Len(log) < MaxCycles
    /\ \E inp \in SessionInputs \cup MissingInputs : CycleV2(inp)

SessionRT ==
    /\ Len(log) < MaxCycles
    /\ \E inp \in SessionInputs \cup MissingInputs : CycleRT(inp)

Next == SessionV2 \/ SessionRT

Spec == Init /\ [][Next]_vars

\* A session of up to MaxSteadyCycles script runs with alerts enabled and one
\* scenario selected throughout.
SteadyInit ==
    /\ app \in {"final_v2", "real_time_alerts"}
    /\ ghost_alert_active = FALSE
    /\ cooling_alert_active = FALSE
    /\ processed_df = <<>>
    /\ metrics = NoMetrics
    /\ raw_feeds = NoFeeds
    /\ sidebar \in {Sidebar([DefaultInput EXCEPT !.enable_email = TRUE, !.scenario = sc]) :
                       sc \in {SCENARIO_1, SCENARIO_2}}
    /\ log = <<>>
    /\ CCIdle
    /\ ArchIdle

SteadyInputs ==
    {inp \in SessionInputs \cup MissingInputs :
        inp.enable_email /\ inp.scenario = sidebar.scenario}

SteadyV2 ==
    /\ Len(log) < MaxSteadyCycles
    /\ \E inp \in SteadyInputs : CycleV2(inp)

SteadyRT ==
    /\ Len(log) < MaxSteadyCycles
    /\ \E inp \in SteadyInputs : CycleRT(inp)

NextSteady == SteadyV2 \/ SteadyRT

SpecSteady == SteadyInit /\ [][NextSteady]_vars

\* One script run on any input: the evaluation as a function of its inputs.
EvalV2 ==
    /\ log = <<>>
    /\ \E k \in DOMAIN EvalInputs : \E inp \in EvalInputs[k] : CycleV2(inp)

EvalRT ==
    /\ log = <<>>
    /\ \E k \in DOMAIN EvalInputs : \E inp \in EvalInputs[k] : CycleRT(inp)

NextEval == EvalV2 \/ EvalRT

SpecEval == Init /\ [][NextEval]_vars

\* command_center: the first script run on any table and any settings.
CCInit ==
    /\ app = "command_center"
    /\ ghost_alert_active = FALSE
    /\ cooling_alert_active = FALSE
    /\ processed_df = <<>>
    /\ metrics = NoMetrics
    /\ raw_feeds = NoFeeds
    /\ sidebar = DefaultCfg
    /\ log = <<>>
    /\ CCIdle
    /\ ArchIdle

CCEval ==
    /\ log = <<>>
    /\ \E inp \in CCEvalInputs : CCRun(inp)

NextCCEval == CCEval

SpecCCEval == CCInit /\ [][NextCCEval]_vars

\* command_center: a session of up to MaxCycles script runs.  A refresh or a
\* slider move reruns the script; the Force Reload and 'Action Taken' buttons
\* rerun it under the settings of the render that offered them.
CCRefresh ==
    /\ Len(log) < MaxCycles
    /\ \E f \in 0..MaxFiles, csv \in SessionTables, cfg \in SessionCfgs :
           CCRun([latest_file |-> f, csv |-> csv, cfg |-> cfg, pressed |-> NoButton])

CCForceReload ==
    /\ Len(log) < MaxCycles
    /\ log # <<>>
    /\ \E f \in 0..MaxFiles, csv \in SessionTables :
           CCRun([latest_file |-> f, csv |-> csv, cfg |-> sidebar, pressed |-> ForceReload])

CCAck ==
    /\ Len(log) < MaxCycles
    /\ \E b \in PendingButtons(actions_df, ack_actions) :
           \E f \in 0..MaxFiles, csv \in SessionTables :
               CCRun([latest_file |-> f, csv |-> csv, cfg |-> sidebar,
                      pressed |-> b])

NextCC == CCRefresh \/ CCForceReload \/ CCAck

SpecCC == CCInit /\ [][NextCC]_vars

\* final_v2: a session of up to MaxCycles script runs in which the operator
\* switches the scenario and the Enable Alerts checkbox at will, the condition
\* of the selected scenario holds or not, the mail goes out or fails, and the
\* power feed may be missing.
AlertInputs ==
    {[DefaultInput EXCEPT !.s_df = s, !.enable_email = e, !.transport = tr] :
        s \in {ConstFeed({0, TicksPerBucket}, 10), ConstFeed({0, TicksPerBucket}, 0)},
        e \in BOOLEAN, tr \in {"sent", "failed"}}
    \cup
    {[DefaultInput EXCEPT !.scenario = SCENARIO_2, !.t_df = t, !.enable_email = e,
                          !.transport = tr] :
        t \in {ConstFeed({0}, TempRow(180, 220)), ConstFeed({0}, TempRow(220, 220))},
        e \in BOOLEAN, tr \in {"sent", "failed"}}
    \cup
    {[DefaultInput EXCEPT !.p_df = None, !.scenario = sc, !.enable_email = e] :
        sc \in {SCENARIO_1, SCENARIO_2}, e \in BOOLEAN}

AlertsInit == DashInit /\ app = "final_v2"

AlertSessionV2 ==
    /\ Len(log) < MaxCycles
    /\ \E inp \in AlertInputs : CycleV2(inp)

NextAlerts == AlertSessionV2

SpecAlerts == AlertsInit /\ [][NextAlerts]_vars

\* real_time_alerts: one call of archive_old_csvs over up to MaxCsvFiles CSV
\* files in the power and temp folders, aged around the margin of one or two
\* hours or with an unreadable modification time, the status folder there or not.
CsvAges == {SECONDS_PER_HOUR, SECONDS_PER_HOUR + 1, 2 * SECONDS_PER_HOUR,
            2 * SECONDS_PER_HOUR + 1, NaN}

ArchInit ==
    /\ app = "real_time_alerts"
    /\ ghost_alert_active = FALSE
    /\ cooling_alert_active = FALSE
    /\ processed_df = <<>>
    /\ metrics = NoMetrics
    /\ raw_feeds = NoFeeds
    /\ sidebar = Sidebar(DefaultInput)
    /\ log = <<>>
    /\ CCIdle
    /\ src_folders \in {{"power", "status", "temp", "valve"}, {"power", "temp", "valve"}}
    /\ csv_files \in SeqsUpTo({CsvFile(d, a) : d \in {"power", "temp"}, a \in CsvAges},
                              MaxCsvFiles)
    /\ archived = {}
    /\ summary = NewSummary
    /\ call = NoCall

ArchiveCall ==
    /\ \E age_hours \in {1, 2} : ArchiveEnter(age_hours)
    /\ UNCHANGED <<dash_vars, cc_vars>>

ArchiveNextFolder == ArchiveFolder /\ UNCHANGED <<dash_vars, cc_vars>>

ArchiveSkipFile == ArchiveSkip /\ UNCHANGED <<dash_vars, cc_vars>>

ArchiveZipFile == ArchiveZip /\ UNCHANGED <<dash_vars, cc_vars>>

ArchiveDone == ArchiveReturn /\ UNCHANGED <<dash_vars, cc_vars>>

NextArchive ==
    ArchiveCall \/ ArchiveNextFolder \/ ArchiveSkipFile \/ ArchiveZipFile \/ ArchiveDone

SpecArchive == ArchInit /\ [][NextArchive]_vars

----------------------------------------------------------------------------
(* Observations used by the properties                                     *)

Rows(df) == {df[i] : i \in 1..Len(df)}

\* The last run completed and showed the table of the selected scenario.
GhostTableShown ==
    log # <<>> /\ log[Len(log)].completed /\ sidebar.scenario = SCENARIO_1

CoolingTableShown ==
    log # <<>> /\ log[Len(log)].completed /\ sidebar.scenario = SCENARIO_2

\* The columns of a row under the names either dashboard gives them.
StatusValue(r) == IF app = "final_v2" THEN r.Unit_Status ELSE r.Status_Binary
ScheduleLabel(r) == IF app = "final_v2" THEN r.Scheduled_Status ELSE r.Schedule_Status
ValveValue(r) == IF app = "final_v2" THEN r.Valve_Position ELSE r.Valve_Pct
FaultFlag(r) == IF app = "final_v2" THEN r.Fault ELSE r.Is_Fault
RowCost(r) == IF app = "final_v2" THEN r.Cooling_Loss ELSE r.Wasted_Cost

\* The OFF window as the specification words it.
SpecOff(h, a, b) ==
    \/ a > b /\ (h >= a \/ h < b)
    \/ a <= b /\ a <= h /\ h < b

\* A waste row as the specification words it (status above 0.5, hour OFF).
SpecWaste(r) ==
    StatusValue(r) > 5 /\ SpecOff(r.Hour, sidebar.off_start, sidebar.off_end)

RECURSIVE SumPowerCost(_, _)
SumPowerCost(rows, rate) ==
    IF rows = <<>> THEN 0
    ELSE rows[1].Power_kW * rate + SumPowerCost(Tail(rows), rate)

\* The log seen through the selected fault type of each run.
SelectedPred(e) == IF e.scenario = SCENARIO_1 THEN e.ghost_pred ELSE e.cooling_pred
SelectedActive(e) ==
    IF e.scenario = SCENARIO_1 THEN e.ghost_alert_active ELSE e.cooling_alert_active
Dispatched(e) == e.dispatch # "none"
Dispatches == Cardinality({i \in DOMAIN log : Dispatched(log[i])})
PredPattern == [i \in DOMAIN log |-> SelectedPred(log[i])]

\* Every run so far completed with alerts enabled and one scenario selected.
SteadySession ==
    \A i \in DOMAIN log :
        log[i].enable_email /\ log[i].completed /\ log[i].scenario = log[1].scenario

\* The selected type's alert flag when run i started.
ActiveBefore(i) == IF i = 1 THEN FALSE ELSE SelectedActive(log[i - 1])

\* The last command-center run loaded a table and ran compute_analytics on it.
AnalyticsShown == app = "command_center" /\ metrics.shown \in {"ok", "error"}

\* The zone rows of the loaded table that belong to a (timestamp, ahu_id), and
\* those of them that are satisfied, as the specification words it.
SpecGroup(ts, ahu) ==
    {i \in 1..Len(session_df.data) :
        LET r == session_df.data[i]
        IN  /\ r.timestamp = ts /\ r.ahu_id = ahu
            /\ r.zone_temp # NaN /\ r.zone_setpoint # NaN /\ r.occupancy # NaN
            /\ r.zone_id # NaN}

SpecSatisfied(ts, ahu) ==
    {i \in SpecGroup(ts, ahu) :
        LET r == session_df.data[i]
        IN  r.zone_temp <= r.zone_setpoint + sidebar.ZONE_SAT_TOL \/ r.occupancy = 0}

\* The AHU record of row i of the loaded table is excess airflow.
SpecExcessAirflow(i) ==
    LET r == session_df.data[i]
    IN  /\ SpecGroup(r.timestamp, r.ahu_id) # {}
        /\ r.ahu_status = 1
        /\ r.airflow_pct >= sidebar.AHU_AIRFLOW_HIGH
        /\ 100 * Cardinality(SpecSatisfied(r.timestamp, r.ahu_id))
               >= sidebar.AHU_ZONE_SAT_RATIO * Cardinality(SpecGroup(r.timestamp, r.ahu_id))

AhuRecord(r) == <<r.timestamp, r.ahu_id, r.airflow_pct, r.ahu_status>>

----------------------------------------------------------------------------
(* Properties                                                              *)

\* C1: every hour 0..23 is classified as exactly one of ON / OFF; it is OFF
\* when off_start > off_end and (hour >= off_start or hour < off_end), or when
\* off_start <= off_end and off_start <= hour < off_end, ON otherwise; the
\* two dashboards classify alike, and the rows of the table carry that label.
C1_ScheduleClassification ==
    /\ \A h \in Hours :
        /\ Scheduled_Status(h, sidebar.off_start, sidebar.off_end) \in {"ON", "OFF"}
        /\ (Scheduled_Status(h, sidebar.off_start, sidebar.off_end) = "OFF")
               <=> SpecOff(h, sidebar.off_start, sidebar.off_end)
        /\ Schedule_Status(h, sidebar.off_start, sidebar.off_end)
               = Scheduled_Status(h, sidebar.off_start, sidebar.off_end)
    /\ GhostTableShown =>
        \A r \in Rows(processed_df) :
            /\ ScheduleLabel(r) \in {"ON", "OFF"}
            /\ (ScheduleLabel(r) = "OFF")
                   <=> SpecOff(r.Hour, sidebar.off_start, sidebar.off_end)

\* A table row in the small hours is OFF under a window that crosses midnight.
C1_Witness ==
    /\ GhostTableShown
    /\ sidebar.off_start > sidebar.off_end
    /\ \E r \in Rows(processed_df) :
           r.Hour < sidebar.off_end /\ ScheduleLabel(r) = "OFF"

\* C2: an aligned hourly row is waste exactly when its status is above 0.5
\* and its hour is OFF-scheduled; the reported total is the sum of
\* power_kW * cost_rate over the waste rows and nothing else, the reported
\* hours their count; 5 kW running for three OFF hours at rate 12 is
\* Rs 180 over 3 waste hours.
C2_GhostWaste ==
    GhostTableShown =>
        /\ metrics.hours = Len(SelectSeq(processed_df, SpecWaste))
        /\ metrics.total_cost
               = SumPowerCost(SelectSeq(processed_df, SpecWaste), sidebar.cost_rate)
        /\ (/\ sidebar.cost_rate = 12
            /\ Len(processed_df) = 3
            /\ \A i \in 1..3 :
                   /\ processed_df[i].Power_kW = 50
                   /\ StatusValue(processed_df[i]) = 10
                   /\ SpecOff(processed_df[i].Hour, sidebar.off_start, sidebar.off_end))
           => (metrics.total_cost = 1800 /\ metrics.hours = 3)

\* Three consecutive OFF hours at 5 kW with the unit on, at rate 12.
C2_Witness ==
    /\ GhostTableShown
    /\ sidebar.cost_rate = 12
    /\ Len(processed_df) = 3
    /\ \A i \in 1..3 :
           /\ processed_df[i].Power_kW = 50
           /\ StatusValue(processed_df[i]) = 10
           /\ processed_df[i].Hour = (22 + i - 1) % 24
           /\ SpecOff(processed_df[i].Hour, sidebar.off_start, sidebar.off_end)

\* C3: final_v2, alerts enabled and one scenario selected throughout: an alert
\* is dispatched only in a run that takes the selected type's alert state from
\* INACTIVE to ACTIVE, and every such rising edge dispatches; a run whose
\* condition is false leaves the state INACTIVE and dispatches nothing; the
\* condition pattern true,true,true dispatches exactly one alert and
\* false,true,false,true exactly two.
C3_EdgeTriggeredAlerts ==
    (app = "final_v2" /\ SteadySession) =>
        /\ \A i \in DOMAIN log :
            /\ Dispatched(log[i]) => (~ActiveBefore(i) /\ SelectedActive(log[i]))
            /\ (SelectedPred(log[i]) /\ ~ActiveBefore(i)) => Dispatched(log[i])
            /\ ~SelectedPred(log[i]) => (~SelectedActive(log[i]) /\ ~Dispatched(log[i]))
        /\ PredPattern = <<TRUE, TRUE, TRUE>> => Dispatches = 1
        /\ PredPattern = <<FALSE, TRUE, FALSE, TRUE>> => Dispatches = 2

\* The condition went false, true, false, true over four runs of final_v2.
C3_Witness ==
    /\ app = "final_v2"
    /\ SteadySession
    /\ PredPattern = <<FALSE, TRUE, FALSE, TRUE>>
    /\ Dispatches = 2

\* C4: real_time_alerts sends no repeated alert while the condition stays
\* continuously true: a run that dispatches an alert does not directly follow
\* a completed run of the same scenario whose condition was already true.
C4_NoRepeatedAlert ==
    app = "real_time_alerts" =>
        \A i \in DOMAIN log :
            (i > 1 /\ Dispatched(log[i])) =>
                ~(/\ log[i - 1].completed
                  /\ log[i - 1].enable_email
                  /\ log[i - 1].scenario = log[i].scenario
                  /\ SelectedPred(log[i - 1]))

\* C5: a dispatch that fails at the transport is caught: the run completes,
\* the alert state of that fault type (where the dashboard keeps one) is
\* ACTIVE at its end, and no later run of that scenario attempts a dispatch
\* while the type's condition has stayed true since.
C5_FailedDispatchIsolated ==
    \A i \in DOMAIN log :
        log[i].dispatch = "failed" =>
            /\ log[i].completed
            /\ app = "final_v2" => SelectedActive(log[i])
            /\ \A j \in (i + 1)..Len(log) :
                   (/\ log[j].scenario = log[i].scenario
                    /\ \A k \in (i + 1)..j :
                           IF log[i].scenario = SCENARIO_1
                           THEN log[k].ghost_pred ELSE log[k].cooling_pred)
                   => ~Dispatched(log[j])

\* C6: final_v2 re-evaluates the alert state of every fault type in every
\* run, whichever scenario is selected: at the end of a completed run a type
\* whose condition is false on that run's data is INACTIVE.
C6_EveryTypeReevaluated ==
    app = "final_v2" =>
        \A i \in DOMAIN log :
            log[i].completed =>
                /\ ~log[i].ghost_pred => ~log[i].ghost_alert_active
                /\ ~log[i].cooling_pred => ~log[i].cooling_alert_active

\* C7: an aligned 15-minute row is an overcooling fault exactly when
\* room_temp < setpoint - 1 and valve > 80; Delta_T = max(0, setpoint -
\* room_temp); a row that is no fault costs 0; a fault row has Delta_T > 1 and,
\* for a positive cooling factor, a positive cost.
C7_OvercoolingRule ==
    CoolingTableShown =>
        \A r \in Rows(processed_df) :
            /\ FaultFlag(r) <=> (r.Room_Temp < r.Setpoint - 10 /\ ValveValue(r) > 800)
            /\ r.Delta_T = (IF r.Setpoint > r.Room_Temp
                            THEN r.Setpoint - r.Room_Temp ELSE 0)
            /\ ~FaultFlag(r) => RowCost(r) = 0
            /\ FaultFlag(r) =>
                   /\ r.Delta_T > 10
                   /\ sidebar.cooling_factor > 0 => RowCost(r) > 0

\* One table holds a costed fault row and an overcooled row that is no fault
\* because its valve is not above 80 %.
C7_Witness ==
    /\ CoolingTableShown
    /\ \E r \in Rows(processed_df) : FaultFlag(r) /\ RowCost(r) > 0
    /\ \E r \in Rows(processed_df) :
           ~FaultFlag(r) /\ r.Room_Temp < r.Setpoint - 10 /\ RowCost(r) = 0

\* C8: the cost of a 15-minute fault row is Delta_T * cooling_factor * 0.25
\* in both dashboards; room 18, setpoint 22, valve 90, factor 150 costs
\* Rs 150.
C8_IntervalScaledCost ==
    CoolingTableShown =>
        \A r \in Rows(processed_df) :
            FaultFlag(r) =>
                /\ 4 * RowCost(r) = r.Delta_T * sidebar.cooling_factor
                /\ (/\ r.Room_Temp = 180 /\ r.Setpoint = 220
                    /\ ValveValue(r) = 900 /\ sidebar.cooling_factor = 150)
                   => RowCost(r) = 1500

\* C9: compute_analytics flags an AHU record as excess airflow exactly when
\* ahu_status is ON (1), airflow_pct >= AHU_AIRFLOW_HIGH and satisfied_ratio >=
\* AHU_ZONE_SAT_RATIO, where satisfied_ratio is (zone rows of that (timestamp,
\* ahu_id) with zone_temp <= setpoint + ZONE_SAT_TOL or occupancy = 0) over
\* (zone rows of that group) and so lies in [0, 1]; the cost of a record is
\* (airflow_pct / 100)^3 * 10 * 0.25 * COST_PER_KWH (airflow_pct^3 * COST units).
C9_AhuExcessAirflow ==
    AnalyticsShown =>
        /\ {AhuRecord(f) : f \in Rows(ahu_flags)}
               = {AhuRecord(session_df.data[i]) :
                     i \in {j \in 1..Len(session_df.data) : SpecExcessAirflow(j)}}
        /\ \A f \in Rows(ahu_flags) :
            /\ f.total_zones = Cardinality(SpecGroup(f.timestamp, f.ahu_id))
            /\ f.satisfied_zones = Cardinality(SpecSatisfied(f.timestamp, f.ahu_id))
            /\ f.total_zones > 0
            /\ 0 <= f.satisfied_zones /\ f.satisfied_zones <= f.total_zones
            /\ f.est_cost = f.airflow_pct * f.airflow_pct * f.airflow_pct
                                * sidebar.COST_PER_KWH

\* An AHU running exactly at the airflow threshold is flagged with its
\* satisfied ratio exactly at the ratio threshold, some zone unsatisfied.
C9_Witness ==
    /\ AnalyticsShown
    /\ \E f \in Rows(ahu_flags) :
        /\ f.airflow_pct = sidebar.AHU_AIRFLOW_HIGH
        /\ f.satisfied_zones < f.total_zones
        /\ 100 * f.satisfied_zones = sidebar.AHU_ZONE_SAT_RATIO * f.total_zones

\* C10: the AHU evaluation yields one record per (timestamp, ahu_id): ahu_flags
\* holds at most one row for a key, and the AHU cost of a bucket enters the
\* total once, not once per zone row.
C10_OneRecordPerAhuBucket ==
    AnalyticsShown =>
        /\ \A i, j \in 1..Len(ahu_flags) :
               (ahu_flags[i].timestamp = ahu_flags[j].timestamp
                    /\ ahu_flags[i].ahu_id = ahu_flags[j].ahu_id) => i = j
        /\ metrics.total_cost
               = SumCol(zone_flags, "est_cost") + SumCol(chiller_flags, "est_cost")
                 + SumOver([k \in {<<f.timestamp, f.ahu_id, f.est_cost>> : f \in Rows(ahu_flags)}
                               |-> k[3]],
                           {<<f.timestamp, f.ahu_id, f.est_cost>> : f \in Rows(ahu_flags)})

\* The rows of the loaded table that carry a chiller reading.
SpecChillerRows ==
    {r \in Rows(session_df.data) :
        r.chiller_id # NaN /\ r.chw_supply_temp # NaN /\ r.chw_return_temp # NaN}

ChillerRecord(ts, id, dt) == <<ts, id, dt>>

\* C11: compute_analytics flags a chiller row exactly when delta_t =
\* chw_return_temp - chw_supply_temp is strictly below CHILLER_LOW_DT; its cost
\* is max(0, CHILLER_LOW_DT - delta_t) * (0.05 * 500) * 0.25 * COST_PER_KWH
\* (250000 * COST units per tenth of a degree); so a flagged row costs more
\* than 0 when COST_PER_KWH > 0, and a row with delta_t at the threshold is not
\* flagged and costs 0.
C11_ChillerLowDeltaT ==
    AnalyticsShown =>
        /\ {ChillerRecord(f.timestamp, f.chiller_id, f.delta_t) : f \in Rows(chiller_flags)}
               = {ChillerRecord(r.timestamp, r.chiller_id,
                                r.chw_return_temp - r.chw_supply_temp) :
                     r \in {x \in SpecChillerRows :
                               x.chw_return_temp - x.chw_supply_temp
                                   < sidebar.CHILLER_LOW_DT}}
        /\ \A f \in Rows(chiller_flags) :
            /\ f.est_cost = (sidebar.CHILLER_LOW_DT - f.delta_t) * 250000
                                * sidebar.COST_PER_KWH
            /\ sidebar.COST_PER_KWH > 0 => f.est_cost > 0
        /\ \A r \in SpecChillerRows :
               (r.chw_return_temp - r.chw_supply_temp = sidebar.CHILLER_LOW_DT) =>
                   /\ ~low_delta_t(r, sidebar)
                   /\ ChillerEstCost(r, sidebar) = 0
                   /\ \A f \in Rows(chiller_flags) :
                          ~(f.chiller_id = r.chiller_id /\ f.timestamp = r.timestamp
                            /\ f.delta_t = sidebar.CHILLER_LOW_DT)

\* One table holds a chiller below the threshold, flagged at a cost, and a
\* chiller exactly at it.
C11_Witness ==
    /\ AnalyticsShown
    /\ \E f \in Rows(chiller_flags) : f.est_cost > 0
    /\ \E r \in SpecChillerRows :
           r.chw_return_temp - r.chw_supply_temp = sidebar.CHILLER_LOW_DT

\* C12: a run with zero qualifying rows (an empty aligned table, or no row
\* flagged) raises no exception and reports zero everywhere: total cost and
\* counts 0, distinct-asset counts 0, the average deviation over zero fault
\* rows 0 (not undefined), and an empty top-actions ranking.
C12_ZeroRowsReportZero ==
    /\ (AnalyticsShown /\ zone_flags = <<>> /\ ahu_flags = <<>> /\ chiller_flags = <<>>) =>
           /\ metrics.shown = "ok"
           /\ metrics.total_cost = 0
           /\ metrics.zones = 0 /\ metrics.ahus = 0 /\ metrics.chillers = 0
           /\ actions_df = <<>>
    /\ (GhostTableShown /\ \A r \in Rows(processed_df) : ~SpecWaste(r)) =>
           /\ metrics.hours = 0
           /\ metrics.total_cost = 0
    /\ (CoolingTableShown /\ \A r \in Rows(processed_df) : ~FaultFlag(r)) =>
           /\ metrics.total_loss = 0
           /\ metrics.avg_dt = 0

\* C13: a missing or unreadable feed only skips the rules that depend on it:
\* with power and status present the ghost-running evaluation runs although
\* temperature or valve is absent, and with temperature and valve present the
\* overcooling evaluation runs although power or status is absent.
C13_MissingFeedIsLocal ==
    \A i \in DOMAIN log :
        /\ (log[i].scenario = SCENARIO_1 /\ log[i].ghost_feeds) => log[i].completed
        /\ (log[i].scenario = SCENARIO_2 /\ log[i].cooling_feeds) => log[i].completed

\* The feeds the last run loaded.
LoadedFeeds == raw_feeds

\* The buckets of the table on show, in display order.
ShownBuckets ==
    [i \in DOMAIN processed_df |->
        IF sidebar.scenario = SCENARIO_1
        THEN processed_df[i].T_Stamp ELSE processed_df[i].Timestamp]

\* A stream has a value for bucket b under the specification's fill policies:
\* mean, a sample falls in the bucket; forward-fill, the last known value at
\* the bucket start is carried forward; interpolation, the bucket lies within
\* the sampled range (no extrapolation) and a sample is known at or before it.
SpecHasMean(f, b) == \E t \in DOMAIN f : BucketOf(t) = b
SpecHasFfill(f, b) == \E t \in DOMAIN f : t <= b * TicksPerBucket
SpecHasInterpolated(f, b) ==
    /\ \E t \in DOMAIN f : t <= b * TicksPerBucket
    /\ \E t \in DOMAIN f : BucketOf(t) >= b

SpecAligned(b) ==
    IF sidebar.scenario = SCENARIO_1
    THEN SpecHasMean(LoadedFeeds.p_df.data, b) /\ SpecHasFfill(LoadedFeeds.s_df.data, b)
    ELSE SpecHasInterpolated(LoadedFeeds.t_df.data, b)
         /\ SpecHasFfill(LoadedFeeds.v_df.data, b)

\* C14: the aligned table on show holds a bucket exactly when every stream its
\* rule needs has a value for the bucket after its fill policy (mean for power,
\* forward-fill for status and valve, interpolation for temperature), and its
\* timestamps are strictly ascending.
C14_AlignedExactlyWhenComplete ==
    (GhostTableShown \/ CoolingTableShown) =>
        /\ \A b \in 0 .. (MaxBuckets - 1) :
               (b \in Rows(ShownBuckets)) <=> SpecAligned(b)
        /\ \A i \in DOMAIN ShownBuckets : \A j \in DOMAIN ShownBuckets :
               i < j => ShownBuckets[i] < ShownBuckets[j]

\* The last run aligned a power stream spanning FillWindow hourly buckets with
\* a status stream of one sample at t = 0.
SingleStatusSample ==
    /\ GhostTableShown
    /\ DOMAIN LoadedFeeds.s_df.data = {0}
    /\ {BucketOf(t) : t \in DOMAIN LoadedFeeds.p_df.data} = 0 .. (FillWindow - 1)

\* C15: a forward-filled status stream with a single sample at t = 0, aligned
\* against a power stream spanning a 4-hour window at 1-hour buckets, carries
\* the sample into all 4 buckets: the aligned table has 4 rows, all with that
\* status value.
C15_SingleSampleFillsWindow ==
    SingleStatusSample =>
        /\ Len(processed_df) = FillWindow
        /\ \A r \in Rows(processed_df) : StatusValue(r) = LoadedFeeds.s_df.data[0]

\* The flagged assets, each under its fault type, and the est_cost summed over
\* the flagged rows of one.
SpecFlagged ==
    {<<"Overcooled Zone", zone_flags[i].zone_id>> : i \in DOMAIN zone_flags}
    \cup {<<"AHU Excess Airflow", ahu_flags[i].ahu_id>> : i \in DOMAIN ahu_flags}
    \cup {<<"Low dT (Chiller)", chiller_flags[i].chiller_id>> : i \in DOMAIN chiller_flags}

SpecCost(a) ==
    IF a[1] = "Overcooled Zone"
    THEN SumOver([i \in DOMAIN zone_flags |-> zone_flags[i].est_cost],
                 {i \in DOMAIN zone_flags : zone_flags[i].zone_id = a[2]})
    ELSE IF a[1] = "AHU Excess Airflow"
    THEN SumOver([i \in DOMAIN ahu_flags |-> ahu_flags[i].est_cost],
                 {i \in DOMAIN ahu_flags : ahu_flags[i].ahu_id = a[2]})
    ELSE SumOver([i \in DOMAIN chiller_flags |-> chiller_flags[i].est_cost],
                 {i \in DOMAIN chiller_flags : chiller_flags[i].chiller_id = a[2]})

Listed == {<<actions_df[i].Type, actions_df[i].Asset>> : i \in DOMAIN actions_df}

SpecRecentFaults ==
    {i \in DOMAIN processed_df :
        /\ i > Len(processed_df) - TREND_WINDOW
        /\ IF sidebar.scenario = SCENARIO_1
           THEN SpecWaste(processed_df[i]) ELSE FaultFlag(processed_df[i])}

\* C17: the recency indicator trend7 is the count of fault buckets among the
\* last 7 buckets of the aligned window, in the ghost-running and in the
\* overcooling module: a fault bucket older than that does not contribute.
C17_TrendCountsLastBuckets ==
    (app = "real_time_alerts" /\ (GhostTableShown \/ CoolingTableShown)) =>
        metrics.trend7 = Cardinality(SpecRecentFaults)

\* The files of the call under way that are not older than the age margin, or
\* whose modification time cannot be read.
SpecNotOld ==
    {i \in DOMAIN csv_files :
        \/ csv_files[i].age = NaN
        \/ csv_files[i].age <= call.age_hours * SECONDS_PER_HOUR}

\* C18: archive_old_csvs only touches files older than the age margin: a CSV
\* whose age is not greater than age_hours * 3600 seconds, or whose modification
\* time cannot be read, is never zipped or removed, and is counted as skipped.
C18_OnlyOldFilesArchived ==
    call.pc # "idle" =>
        /\ \A i \in SpecNotOld : csv_files[i].present /\ i \notin archived
        /\ call.pc = "returned" => summary.skipped = Cardinality(SpecNotOld)

\* A call returned after it skipped a file exactly at the margin and zipped
\* an older one.
C18_Witness ==
    /\ call.pc = "returned"
    /\ \E i \in SpecNotOld : csv_files[i].age = call.age_hours * SECONDS_PER_HOUR
    /\ summary.zipped > 0
    /\ summary.skipped > 0

\* The table on show has a row for every hour of the day.
WholeDayShown ==
    GhostTableShown /\ {r.Hour : r \in Rows(processed_df)} = Hours

\* C19: when off_start = off_end the schedule window is empty: no hour is
\* OFF-scheduled and no row is flagged as ghost running whatever the status
\* and power; in general the number of OFF-scheduled hours of a day is
\* (off_end - off_start) mod 24.
C19_EmptyWindowAndOffHours ==
    GhostTableShown =>
        /\ sidebar.off_start = sidebar.off_end =>
              /\ \A r \in Rows(processed_df) : ScheduleLabel(r) = "ON"
              /\ metrics.hours = 0
        /\ WholeDayShown =>
              Cardinality({r \in Rows(processed_df) : ScheduleLabel(r) = "OFF"})
                  = (sidebar.off_end - sidebar.off_start) % Cardinality(Hours)

\* A whole day with the unit on under an empty window (off_start = off_end).
C19_Witness ==
    /\ WholeDayShown
    /\ sidebar.off_start = sidebar.off_end
    /\ \A r \in Rows(processed_df) : r.Actual_Status = "ON"

\* The alert flag of a scenario after run i, and before it.
ActiveAfter(sc, i) ==
    IF sc = SCENARIO_1 THEN log[i].ghost_alert_active ELSE log[i].cooling_alert_active

ActiveUntil(sc, i) == IF i = 1 THEN FALSE ELSE ActiveAfter(sc, i - 1)

\* Run i evaluated scenario sc with alerts enabled and its predicate true.
EnabledAndTrue(sc, i) ==
    /\ log[i].completed
    /\ log[i].scenario = sc
    /\ log[i].enable_email
    /\ SelectedPred(log[i])

\* C20: in final_v2 no alert is dispatched in a cycle where enable_email is
\* false, and an alert state becomes ACTIVE only in a cycle that attempts a
\* dispatch; so while alerts are disabled the state stays INACTIVE even if the
\* predicate is true, and the first cycle with alerts enabled and the predicate
\* true dispatches an alert, even when the predicate was true in the cycles
\* before it.
C20_DisabledAlertsStayInactive ==
    app = "final_v2" =>
        \A i \in DOMAIN log : \A sc \in {SCENARIO_1, SCENARIO_2} :
            /\ ~log[i].enable_email => ~Dispatched(log[i])
            /\ (ActiveAfter(sc, i) /\ ~ActiveUntil(sc, i)) =>
                   (Dispatched(log[i]) /\ log[i].scenario = sc)
            /\ (\A j \in 1..i : ~log[j].enable_email) => ~ActiveAfter(sc, i)
            /\ (EnabledAndTrue(sc, i) /\ \A j \in 1..(i - 1) : ~EnabledAndTrue(sc, j)) =>
                   Dispatched(log[i])

\* Two cycles with alerts disabled and the ghost-running predicate true, then
\* a cycle with alerts enabled that dispatches.
C20_Witness ==
    /\ app = "final_v2"
    /\ Len(log) = 3
    /\ \A i \in {1, 2} :
          /\ ~log[i].enable_email /\ log[i].completed
          /\ log[i].scenario = SCENARIO_1 /\ log[i].ghost_pred
          /\ ~log[i].ghost_alert_active
    /\ EnabledAndTrue(SCENARIO_1, 3)
    /\ Dispatched(log[3])
    /\ log[3].ghost_alert_active

\* The position of a file's folder in the loop over the feed folders.
FolderPos(i) == CHOOSE k \in DOMAIN FOLDERS : FOLDERS[k] = csv_files[i].folder

\* The files the call under way is done with, and the missing folders it passed.
Handled ==
    {i \in DOMAIN csv_files :
        \/ FolderPos(i) < call.folder
        \/ FolderPos(i) = call.folder /\ call.pc = "files" /\ i \notin call.files}

MissingPassed ==
    {k \in DOMAIN FOLDERS : k < call.folder /\ FOLDERS[k] \notin src_folders}

\* C21: archive_old_csvs removes a stale CSV only after it was written into
\* the zip archive: a file whose zip could not be created or written stays in
\* place and counts as an error, and on return zipped + skipped + errors is the
\* number of CSV files seen plus the number of missing feed folders, with moved
\* still 0.
C21_ZipBeforeRemove ==
    call.pc \in {"folder", "files", "returned"} =>
        /\ \A i \in DOMAIN csv_files : ~csv_files[i].present => i \in archived
        /\ summary.zipped = Cardinality({i \in DOMAIN csv_files : ~csv_files[i].present})
        /\ summary.errors =
               Cardinality(MissingPassed)
               + Cardinality({i \in Handled \ SpecNotOld : csv_files[i].present})
        /\ summary.moved = 0
        /\ call.pc = "returned" =>
               summary.zipped + summary.skipped + summary.errors
                   = Len(csv_files) + Cardinality(MissingPassed)

\* A call returned after the zip of one stale file could not be written (the
\* file is still in its folder, out of the archive) and another was zipped and
\* removed.
C21_Witness ==
    /\ call.pc = "returned"
    /\ \E i \in DOMAIN csv_files \ SpecNotOld :
          csv_files[i].present /\ i \notin archived
    /\ \E i \in DOMAIN csv_files : ~csv_files[i].present /\ i \in archived
    /\ summary.errors > 0

\* The button pressed in the run a step takes.
PressedNow == log'[Len(log')].pressed

\* The step's run acknowledged `id` on a press of the button that the render
\* before it offered for `id`, then shown as pending.
PressedItsButton(id) ==
    \E j \in DOMAIN actions_df :
        /\ action_id(actions_df[j]) = id
        /\ id \notin ack_actions
        /\ PressedNow = AckButton(actions_df[j].label, actions_df[j].Asset)

\* C22: in the command center the set of acknowledged actions only grows during
\* a session: an action id is added only by pressing its 'Action Taken' button
\* while it is shown as pending, is never removed by a refresh, by the ingestion
\* of a new file or by Force Reload, and an acknowledged action offers no
\* button (it is rendered as Completed) in every later run that lists it.
C22_AckSetOnlyGrows ==
    [][app = "command_center" =>
          /\ ack_actions \subseteq ack_actions'
          /\ \A id \in ack_actions' \ ack_actions : PressedItsButton(id)
          /\ \A j \in DOMAIN actions_df' :
                action_id(actions_df'[j]) \in ack_actions =>
                    actions_df'[j].label \notin PendingKeys(actions_df', ack_actions')
      ]_vars

====
